---- MODULE Spec2Model ----
(***************************************************************************)
(* The chat server of src/src/server.rs: the broker task (server_task),    *)
(* the per-connection handler (handle_connection, process_login,           *)
(* process_msg) and the egress task each connection spawns, connected by   *)
(* bounded tokio mpsc channels; and the path of one frame through          *)
(* Descriptor::read, process_msg and the egress task, byte by byte, with   *)
(* the descriptor layout of src/src/lib.rs.                                *)
(***************************************************************************)
EXTENDS Integers, Sequences, FiniteSets, TLC

\* ------------------------------------------------------------- bounds
\* accepted TCP connections (run_server spawns one handle_connection each)
NConn == 2
\* capacity of every mpsc channel; the code uses channel(128), scaled down
ChanCap == 2
\* everything the clients and the network inject, together: frames read by
\* process_login and process_msg, disconnects, I/O faults
MaxInputs == 3
\* BUF_SIZE, the largest content process_msg keeps in memory and the largest
\* chunk of a read_buf; the code uses 16 * 1024, scaled down
BufSize == 2
\* the most bytes that follow a frame's descriptor (and filename) on the stream
MaxTail == 4

Conn == 1..NConn
NoConn == 0
Users == {"alice", "bob"}
\* the broker compares usernames only for equality, so the k-th different
\* username that appears in a Login frame is called UserOrder[k]
UserOrder == <<"alice", "bob">>
NameIndex(u) == CHOOSE k \in 1..Len(UserOrder) : UserOrder[k] = u

\* ------------------------------------------------------------- state
VARIABLES
    map,          \* server_task: HashMap username -> Sender (the connection whose egress queue it feeds), NoConn = absent
    inbound,      \* the broker's inbound channel (run_server: channel(128))
    bpc,          \* broker position: "idle" (rx.recv), "fanout" (inside the for loop), "emit" (tx.send(..).await)
    bmsg,         \* the event the broker is handling
    bpending,     \* fanout: the registry entries the for loop has not sent to yet
    cpc,          \* handle_connection position per connection
    uname,        \* process_login's username: of the Join in flight, then of the session ("" otherwise)
    resp,         \* the oneshot reply of the connection's Join in flight ("none" = not answered)
    queue,        \* the connection's egress channel (handle_connection: channel(128))
    epc,          \* egress task: "none" (not spawned), "running", "closed" (recv gave None), "failed" (write error)
    written,      \* frames written to the connection's socket, in order
    clock,        \* number of Message events enqueued on inbound so far (stamps each Message)
    sent,         \* user Message events submitted by ingress tasks, each with the connections logged in at that moment
    joinsAccepted,    \* number of Joins answered with Login
    loggedOut,    \* connections whose Logout event the broker has handled
    logoutAud,    \* per such connection, the other connections logged in at that moment
    nNames,       \* number of different usernames Login frames have named so far
    inputsLeft,   \* frames, disconnects and faults that may still be injected
    files,        \* spill files in the temporary directory, named by the stamp of their Message
    sendFailed,   \* connections for whose queue a send of the broker's for loop returned Err
    wpc,          \* one frame followed byte by byte: where it is on its way through the server
    wframe,       \* that frame as the client sent it, and what follows it on the stream
    wbytes,       \* the descriptor's bytes on the wire
    wgot,         \* the Descriptor that Descriptor::read returned
    wpos,         \* how many bytes after the descriptor (and filename) process_msg has consumed
    wfile,        \* the bytes written to the spill file of the frame
    wmsg,         \* the Message event process_msg sent for the frame
    wout          \* what the egress task (or send_msg) wrote to the socket for it

\* the variables of the broker, the connections and their tasks
chatVars == <<map, inbound, bpc, bmsg, bpending, cpc, uname, resp, queue, epc,
              written, clock, sent, joinsAccepted, loggedOut, logoutAud,
              nNames, inputsLeft, files, sendFailed>>

\* the variables of the frame followed byte by byte
wireVars == <<wpc, wframe, wbytes, wgot, wpos, wfile, wmsg, wout>>

vars == <<chatVars, wireVars>>

\* ------------------------------------------------------------- events
\* InternalMessage (server.rs:29-43). conn and id are the identity of the event
\* (the connection that caused it, its stamp); the header carries user.
Event(type, kind, user, conn, id, content) ==
    [type |-> type, kind |-> kind, user |-> user, conn |-> conn, id |-> id, content |-> content]

NoEvent == Event("None", "None", "", NoConn, 0, "None")

JoinEvent(u, c) == Event("Join", "Login", u, c, 0, "None")

LogoutEvent(u, c) == Event("Logout", "Logout", u, c, 0, "None")

\* process_msg: content_len <= BUF_SIZE is read into memory, else spilled to a file
ContentOf(big) == IF big THEN "File" ELSE "Vec"

UserMessage(kind, u, c, id, big) == Event("Message", kind, u, c, id, ContentOf(big))

\* variant of LoginMessage carrying the descriptor of the other arm
LoginMessageWrongKind(u, c, id) == Event("Message", "Logout", u, c, id, "None")

\* server_task Join arm: Descriptor::from(Login), header names username, Content::None
LoginMessage(u, c, id) == Event("Message", "Login", u, c, id, "None")

\* variant of LogoutMessage whose frame has the kind of a Login broadcast
LogoutMessageAsLogin(u, c, id) == Event("Message", "Login", u, c, id, "None")

\* server_task Logout arm: Descriptor::from(Logout), header names username, Content::None
LogoutMessage(u, c, id) == Event("Message", "Logout", u, c, id, "None")

\* variant of ReplyFrame with the two error kinds of the handshake exchanged
ReplyFrameSwapped(kind) ==
    Event("Message",
          CASE kind = "BadLogin" -> "BadUsername"
            [] kind = "BadUsername" -> "BadLogin"
            [] OTHER -> kind,
          "", NoConn, 0, "None")

\* send_msg(writer, Descriptor::from(kind), None, None): descriptor-only frame
ReplyFrame(kind) == Event("Message", kind, "", NoConn, 0, "None")

\* the frames a client can send after login (kind, content larger than BUF_SIZE or not)
UserFrames == {<<"Utf8", FALSE>>, <<"File", TRUE>>}

\* ------------------------------------------------------------- channels
\* variant of ChanPush that puts the newest event first
ChanPushFront(q, e) == <<e>> \o q

\* mpsc Sender::send once a permit is available: FIFO append
ChanPush(q, e) == Append(q, e)

\* mpsc Receiver::recv on a non-empty channel: oldest event first
ChanPop(q) == [e |-> Head(q), rest |-> Tail(q)]

HasRoom(q) == Len(q) < ChanCap

\* the Receiver of c's egress channel is alive: held by handle_connection until
\* process_login returns, then by the egress task
RxAlive(c) == cpc[c] \in {"login", "joining"} \/ epc[c] = "running"

\* some Sender of c's egress channel is alive: sender_conn inside process_login
\* (and its clone in a Join in flight), or a value of the registry
TxAlive(c) == cpc[c] \in {"login", "joining"} \/ \E u \in Users : map[u] = c

\* run_server hands every accepted stream to its own handle_connection task.
\* The tasks are interchangeable, so connections are numbered by the order in
\* which their first frame (or I/O error) reaches process_login.
Started(c) == cpc[c] # "login" \/ written[c] # <<>>

Open(c) == \A d \in Conn : d < c => Started(d)

\* ------------------------------------------------------------- registry
Registered == {u \in Users : map[u] # NoConn}

\* variant of MapInsert that stores nothing
MapInsertNoop(m, u, c) == m

\* HashMap::insert: the value is set whether or not the key was present
MapInsert(m, u, c) == [m EXCEPT ![u] = c]

\* variant of MapRemove that leaves the entry in place
MapRemoveNoop(m, u) == m

\* HashMap::remove
MapRemove(m, u) == [m EXCEPT ![u] = NoConn]

\* number of Logout events the broker has handled
logoutsProcessed == Cardinality(loggedOut)

\* the registry after a send of the for loop returned Err: let _ = drops the
\* result, the entry is neither removed nor changed
OnSendError(m, u) == m

\* variant of LeavesHandshake that takes any reply for a successful login
LeavesHandshakeAlways(r) == TRUE

\* process_login: if resp == MessageType::Login { break Ok(username) }
LeavesHandshake(r) == r = "Login"

\* ------------------------------------------------------------- descriptor (lib.rs)
\* the values of a u16 (header_len, the discriminant of MessageType)
U16Mod == 65536

\* size_of::<Descriptor>() under #[repr(C)]: type at 0, header_len at 2, four
\* bytes of padding, content_len at 8 (the alignment of u64)
DescSize == 16

\* enum MessageType, with the spelling of its last variant
Kinds == {"Login", "Logout", "UsernameExists", "BadUsername", "BadLogin",
          "Image", "Utf8", "File", "Voice", "Unknwown"}

\* process_msg: MessageType::Utf8 | MessageType::File | MessageType::Voice | MessageType::Image
IsUserKind(k) == k \in {"Utf8", "File", "Voice", "Image"}

\* #[repr(u16)]: the explicit discriminants, and the implicit one of Unknwown
TypeCode(k) ==
    CASE k = "Login" -> 1
      [] k = "Logout" -> 2
      [] k = "UsernameExists" -> 3
      [] k = "BadUsername" -> 4
      [] k = "BadLogin" -> 5
      [] k = "Image" -> 6
      [] k = "Utf8" -> 7
      [] k = "File" -> 8
      [] k = "Voice" -> 9
      [] k = "Unknwown" -> 10

\* #[derive(FromPrimitive)] with #[num_enum(default)] on Unknwown
TypeFrom(v) ==
    IF \E k \in Kinds : TypeCode(k) = v
      THEN CHOOSE k \in Kinds : TypeCode(k) = v
      ELSE "Unknwown"

\* a u64 as the eight bytes it has in memory, lowest first (little-endian
\* target); the model writes numbers below U16Mod this way
LeU64(n) == <<n % 256, (n \div 256) % 256, 0, 0, 0, 0, 0, 0>>

\* struct Descriptor; content_len is kept as its eight bytes
Desc(t, h, c) == [type |-> t, header_len |-> h, content_len |-> c]

\* impl From<MessageType> for Descriptor
DescFrom(t) == Desc(t, 0, LeU64(0))

\* Descriptor::with_header_len
WithHeaderLen(d, h) == [d EXCEPT !.header_len = h]

\* header.len() as u16
AsU16(n) == n % U16Mod

\* Descriptor::as_bytes: the DescSize bytes of the struct, read from memory
\* (little-endian target). The padding is not initialised: pad is whatever
\* the four bytes hold.
AsBytes(d, pad) ==
    <<TypeCode(d.type) % 256, TypeCode(d.type) \div 256,
      d.header_len % 256, d.header_len \div 256>> \o pad \o d.content_len

\* variant of FromBytes for a layout without padding: content_len at offset 4
FromBytesPacked(b) ==
    Desc(TypeFrom(b[1] + b[2] * 256), b[3] + b[4] * 256, SubSeq(b, 5, 12))

\* Descriptor::from_bytes: type and header_len from bytes 0..4, low byte first;
\* content_len copied from bytes[8..]
FromBytes(b) ==
    Desc(TypeFrom(b[1] + b[2] * 256), b[3] + b[4] * 256, SubSeq(b, 9, DescSize))

\* content_len <= BUF_SIZE as u64 (BufSize is below 256)
FitsBuffer(cl) == cl[1] <= BufSize /\ \A i \in 2..8 : cl[i] = 0

\* serde_json of a string without characters to escape: the quotes are added
JsonStr(n) == n + 2

\* "key":"value"
JsonField(key, val) == JsonStr(key) + 1 + JsonStr(val)

\* serde_json::to_vec(&ServerHeader): {"timestamp":"..","from":".."} and, when
\* filename is Some, ,"filename":".." (skip_serializing_if = "Option::is_none");
\* ts, u, f are the lengths of the three values
HeaderJsonLen(ts, u, named, f) ==
    1 + JsonField(9, ts) + 1 + JsonField(4, u) + (IF named THEN 1 + JsonField(8, f) ELSE 0) + 1

\* ------------------------------------------------------------- one frame, byte by byte
\* header_len values a client may put in a descriptor
HeaderLens == {0, 1, 65474, 65475, 65535}

\* content_len values: the small ones, 2^32, and two patterns over all bytes
ContentLens ==
    {LeU64(n) : n \in 0..MaxTail}
      \cup {<<0, 0, 0, 0, 1, 0, 0, 0>>, <<1, 2, 3, 4, 5, 6, 7, 8>>,
            <<255, 255, 255, 255, 255, 255, 255, 255>>}

\* what the padding of a Descriptor may hold
Pads == {<<0, 0, 0, 0>>, <<171, 205, 239, 1>>}

\* chrono's DateTime<Utc> in JSON: 20 bytes, or up to 30 with the nanoseconds
TimestampLens == {20, 30}

\* byte lengths of the session's username
UnameLens == {1, 5}

\* a frame on the ingress stream of a logged-in connection: its descriptor
\* (desc, with the padding pad), then for a File header_len bytes of filename,
\* then tail further bytes, numbered 1..tail, after which the stream has ended
\* (eof) or stays open with nothing more to read; ts and ulen are the lengths
\* of the timestamp and of the username that go into the server's header
WireFrames ==
    [desc : {Desc(k, h, c) : k \in Kinds, h \in HeaderLens, c \in ContentLens},
     pad : Pads, tail : 0..MaxTail, eof : BOOLEAN, ts : TimestampLens, ulen : UnameLens]

\* a reply of process_login: send_msg(writer, Descriptor::from(kind), None, None)
ReplyKinds == {"Login", "UsernameExists", "BadLogin", "BadUsername"}

WireReplies ==
    [desc : {DescFrom(k) : k \in ReplyKinds},
     pad : Pads, tail : {0}, eof : {FALSE}, ts : {20}, ulen : {1}]

\* the bytes i+1..j that follow the frame's descriptor (and filename)
TailBytes(i, j) == [k \in 1..(j - i) |-> i + k]

\* enum Content: Vec(bytes) | File(path) | None; the path is that of wfile
ContentVec(data) == [type |-> "Vec", data |-> data]

ContentFile == [type |-> "File", data |-> <<>>]

ContentNone == [type |-> "None", data |-> <<>>]

NoMsg == [desc |-> DescFrom("Unknwown"), header |-> 0, content |-> ContentNone]

NoOut == [desc |-> <<>>, header |-> 0, content |-> <<>>]

\* no frame is followed byte by byte
WireOff ==
    /\ wpc = "off"
    /\ wframe = [desc |-> DescFrom("Unknwown"), pad |-> <<0, 0, 0, 0>>, tail |-> 0,
                 eof |-> FALSE, ts |-> 20, ulen |-> 1]
    /\ wbytes = <<>>
    /\ wgot = DescFrom("Unknwown")
    /\ wpos = 0
    /\ wfile = <<>>
    /\ wmsg = NoMsg
    /\ wout = NoOut

\* ------------------------------------------------------------- initial state
\* the broker and the connections after run_server has spawned server_task and
\* accepted the connections, with n inputs to come
ChatInit(n) ==
    /\ map = [u \in Users |-> NoConn]
    /\ inbound = <<>>
    /\ bpc = "idle"
    /\ bmsg = NoEvent
    /\ bpending = {}
    /\ cpc = [c \in Conn |-> "login"]
    /\ uname = [c \in Conn |-> ""]
    /\ resp = [c \in Conn |-> "none"]
    /\ queue = [c \in Conn |-> <<>>]
    /\ epc = [c \in Conn |-> "none"]
    /\ written = [c \in Conn |-> <<>>]
    /\ clock = 0
    /\ sent = {}
    /\ joinsAccepted = 0
    /\ loggedOut = {}
    /\ logoutAud = [c \in Conn |-> {}]
    /\ nNames = 0
    /\ inputsLeft = n
    /\ files = {}
    /\ sendFailed = {}

\* the state after run_server has spawned server_task and accepted the
\* connections, with n inputs to come
InitWith(n) == ChatInit(n) /\ WireOff

Init == InitWith(MaxInputs)

\* the same system with one more input to come
InitDeep == InitWith(MaxInputs + 1)

\* ------------------------------------------------------------- broker
\* server_task, while let Some(msg) = rx.recv().await, Message arm: the for loop
\* starts over the entries the registry holds now
BrokerRecvMessage ==
    /\ bpc = "idle"
    /\ inbound # <<>>
    /\ ChanPop(inbound).e.type = "Message"
    /\ inbound' = ChanPop(inbound).rest
    /\ IF Registered = {}
         THEN bpc' = "idle" /\ bmsg' = NoEvent
         ELSE bpc' = "fanout" /\ bmsg' = ChanPop(inbound).e
    /\ bpending' = Registered
    /\ UNCHANGED <<map, cpc, uname, resp, queue, epc, written, clock, sent, joinsAccepted,
                   loggedOut, logoutAud, inputsLeft, nNames, files, sendFailed>>
    /\ UNCHANGED wireVars

\* one iteration of the for loop: sender.send(msg.try_clone().unwrap()).await with
\* the result ignored. The send waits while the subscriber's queue is full and
\* returns Err at once when its receiver is gone.
BrokerSend(u) ==
    /\ bpc = "fanout"
    /\ u \in bpending
    /\ \/ /\ ~RxAlive(map[u])
          /\ map' = OnSendError(map, u)
          /\ sendFailed' = sendFailed \cup {map[u]}
          /\ UNCHANGED queue
       \/ /\ RxAlive(map[u])
          /\ HasRoom(queue[map[u]])
          /\ queue' = [queue EXCEPT ![map[u]] = ChanPush(@, bmsg)]
          /\ UNCHANGED <<map, sendFailed>>
    /\ bpending' = bpending \ {u}
    /\ IF bpending' = {}
         THEN bpc' = "idle" /\ bmsg' = NoEvent
         ELSE UNCHANGED <<bpc, bmsg>>
    /\ UNCHANGED <<inbound, cpc, uname, resp, epc, written, clock, sent,
                   joinsAccepted, loggedOut, logoutAud, inputsLeft, nNames, files>>
    /\ UNCHANGED wireVars

\* Join arm up to the reply or the self-send: map.insert(username, sender); an
\* old value means UsernameExists is answered at once
BrokerRecvJoin ==
    /\ bpc = "idle"
    /\ inbound # <<>>
    /\ ChanPop(inbound).e.type = "Join"
    /\ LET e == ChanPop(inbound).e IN
         /\ inbound' = ChanPop(inbound).rest
         /\ map' = MapInsert(map, e.user, e.conn)
         /\ IF map[e.user] # NoConn
              THEN /\ resp' = [resp EXCEPT ![e.conn] = "UsernameExists"]
                   /\ UNCHANGED <<bpc, bmsg>>
              ELSE /\ bpc' = "emit"
                   /\ bmsg' = e
                   /\ UNCHANGED resp
    /\ UNCHANGED <<bpending, cpc, uname, queue, epc, written, clock, sent, joinsAccepted,
                   loggedOut, logoutAud, inputsLeft, nNames, files, sendFailed>>
    /\ UNCHANGED wireVars

\* Logout arm up to the self-send: map.remove(&username)
BrokerRecvLogout ==
    /\ bpc = "idle"
    /\ inbound # <<>>
    /\ ChanPop(inbound).e.type = "Logout"
    /\ inbound' = ChanPop(inbound).rest
    /\ map' = MapRemove(map, ChanPop(inbound).e.user)
    /\ loggedOut' = loggedOut \cup {ChanPop(inbound).e.conn}
    /\ logoutAud' = [logoutAud EXCEPT ![ChanPop(inbound).e.conn] =
                        {d \in Conn \ {ChanPop(inbound).e.conn} : cpc[d] = "ingress"}]
    /\ bpc' = "emit"
    /\ bmsg' = ChanPop(inbound).e
    /\ UNCHANGED <<bpending, cpc, uname, resp, queue, epc, written, clock, sent,
                   joinsAccepted, inputsLeft, nNames, files, sendFailed>>
    /\ UNCHANGED wireVars

\* tx.send(InternalMessage::Message {..}).await.unwrap() onto the broker's own
\* inbound channel (it waits for a free slot), then resp.send(Login) in the Join arm
BrokerEmit ==
    /\ bpc = "emit"
    /\ HasRoom(inbound)
    /\ clock' = clock + 1
    /\ IF bmsg.type = "Join"
         THEN /\ inbound' = ChanPush(inbound, LoginMessage(bmsg.user, bmsg.conn, clock + 1))
              /\ resp' = [resp EXCEPT ![bmsg.conn] = "Login"]
              /\ joinsAccepted' = joinsAccepted + 1
         ELSE /\ inbound' = ChanPush(inbound, LogoutMessage(bmsg.user, bmsg.conn, clock + 1))
              /\ UNCHANGED <<resp, joinsAccepted>>
    /\ bpc' = "idle"
    /\ bmsg' = NoEvent
    /\ UNCHANGED <<map, bpending, cpc, uname, queue, epc, written, sent, loggedOut,
                   logoutAud, inputsLeft, nNames, files, sendFailed>>
    /\ UNCHANGED wireVars

\* ------------------------------------------------------------- process_login
\* a first frame whose kind is not Login: BadLogin is written, the loop continues
LoginBadKind(c) ==
    /\ cpc[c] = "login"
    /\ Open(c)
    /\ inputsLeft > 0
    /\ inputsLeft' = inputsLeft - 1
    /\ written' = [written EXCEPT ![c] = Append(@, ReplyFrame("BadLogin"))]
    /\ UNCHANGED <<map, inbound, bpc, bmsg, bpending, cpc, uname, resp, queue, epc, clock,
                   sent, joinsAccepted, loggedOut, logoutAud, nNames, files, sendFailed>>
    /\ UNCHANGED wireVars

\* a Login frame whose header is not UTF-8: BadUsername is written, the loop continues
LoginBadUtf8(c) ==
    /\ cpc[c] = "login"
    /\ Open(c)
    /\ inputsLeft > 0
    /\ inputsLeft' = inputsLeft - 1
    /\ written' = [written EXCEPT ![c] = Append(@, ReplyFrame("BadUsername"))]
    /\ UNCHANGED <<map, inbound, bpc, bmsg, bpending, cpc, uname, resp, queue, epc, clock,
                   sent, joinsAccepted, loggedOut, logoutAud, nNames, files, sendFailed>>
    /\ UNCHANGED wireVars

\* a Login frame naming u: Join {username, resp, sender: sender_conn.clone()} is
\* sent to the broker (the send waits for a free slot), then the reply is awaited
LoginJoin(c, u) ==
    /\ cpc[c] = "login"
    /\ Open(c)
    /\ NameIndex(u) <= nNames + 1
    /\ nNames' = IF NameIndex(u) > nNames THEN nNames + 1 ELSE nNames
    /\ inputsLeft > 0
    /\ HasRoom(inbound)
    /\ inputsLeft' = inputsLeft - 1
    /\ inbound' = ChanPush(inbound, JoinEvent(u, c))
    /\ cpc' = [cpc EXCEPT ![c] = "joining"]
    /\ uname' = [uname EXCEPT ![c] = u]
    /\ resp' = [resp EXCEPT ![c] = "none"]
    /\ UNCHANGED <<map, bpc, bmsg, bpending, queue, epc, written, clock, sent,
                   joinsAccepted, loggedOut, logoutAud, files, sendFailed>>
    /\ UNCHANGED wireVars

\* the reply arrived: a descriptor of the reply's kind is written; on Login
\* process_login returns (sender_conn is dropped) and handle_connection spawns
\* the egress task and enters the process_msg loop
LoginReply(c) ==
    /\ cpc[c] = "joining"
    /\ resp[c] # "none"
    /\ written' = [written EXCEPT ![c] = Append(@, ReplyFrame(resp[c]))]
    /\ resp' = [resp EXCEPT ![c] = "none"]
    /\ IF LeavesHandshake(resp[c])
         THEN /\ cpc' = [cpc EXCEPT ![c] = "ingress"]
              /\ epc' = [epc EXCEPT ![c] = "running"]
              /\ UNCHANGED uname
         ELSE /\ cpc' = [cpc EXCEPT ![c] = "login"]
              /\ uname' = [uname EXCEPT ![c] = ""]
              /\ UNCHANGED epc
    /\ UNCHANGED <<map, inbound, bpc, bmsg, bpending, queue, clock, sent, joinsAccepted,
                   loggedOut, logoutAud, inputsLeft, nNames, files, sendFailed>>
    /\ UNCHANGED wireVars

\* an I/O error inside process_login (descriptor read, header read, or the write
\* of a reply): the ? operator returns from handle_connection, which drops the
\* receiver and sender_conn; no Logout is sent
LoginIoError(c) ==
    /\ \/ cpc[c] = "login" /\ Open(c)
       \/ cpc[c] = "joining" /\ resp[c] # "none"
    /\ inputsLeft > 0
    /\ inputsLeft' = inputsLeft - 1
    /\ cpc' = [cpc EXCEPT ![c] = "failed"]
    /\ resp' = [resp EXCEPT ![c] = "none"]
    /\ queue' = [queue EXCEPT ![c] = <<>>]
    /\ UNCHANGED <<map, inbound, bpc, bmsg, bpending, uname, epc, written, clock, sent,
                   joinsAccepted, loggedOut, logoutAud, nNames, files, sendFailed>>
    /\ UNCHANGED wireVars

\* ------------------------------------------------------------- process_msg loop
\* process_msg on a frame of kind Utf8, File, Voice or Image: the content is
\* materialised and Message {desc, header, content} is sent to the broker (the
\* send waits for a free slot of the inbound channel)
IngressMsg(c, f) ==
    /\ cpc[c] = "ingress"
    /\ inputsLeft > 0
    /\ HasRoom(inbound)
    /\ inputsLeft' = inputsLeft - 1
    /\ clock' = clock + 1
    /\ inbound' = ChanPush(inbound, UserMessage(f[1], uname[c], c, clock + 1, f[2]))
    /\ sent' = sent \cup {[m |-> UserMessage(f[1], uname[c], c, clock + 1, f[2]),
                          aud |-> {d \in Conn : cpc[d] = "ingress"}]}
    /\ files' = IF f[2] THEN files \cup {clock + 1} ELSE files
    /\ UNCHANGED <<map, bpc, bmsg, bpending, cpc, uname, resp, queue, epc, written,
                   joinsAccepted, loggedOut, logoutAud, nNames, sendFailed>>
    /\ UNCHANGED wireVars

\* process_msg on a frame of any other kind: the match arm is todo!(), which
\* panics the handle_connection task; the statements after the loop never run
IngressBadKind(c) ==
    /\ cpc[c] = "ingress"
    /\ inputsLeft > 0
    /\ inputsLeft' = inputsLeft - 1
    /\ cpc' = [cpc EXCEPT ![c] = "panicked"]
    /\ UNCHANGED <<map, inbound, bpc, bmsg, bpending, uname, resp, queue, epc, written,
                   clock, sent, joinsAccepted, loggedOut, logoutAud, nNames, files, sendFailed>>
    /\ UNCHANGED wireVars

\* process_msg returns Err (read error, end of stream, spill file error): the
\* while let Ok(_) loop ends
IngressError(c) ==
    /\ cpc[c] = "ingress"
    /\ inputsLeft > 0
    /\ inputsLeft' = inputsLeft - 1
    /\ cpc' = [cpc EXCEPT ![c] = "logout"]
    /\ UNCHANGED <<map, inbound, bpc, bmsg, bpending, uname, resp, queue, epc, written,
                   clock, sent, joinsAccepted, loggedOut, logoutAud, nNames, files, sendFailed>>
    /\ UNCHANGED wireVars

\* after the loop: sender.send(Logout {username}).await.unwrap(), then the task ends
SendLogout(c) ==
    /\ cpc[c] = "logout"
    /\ HasRoom(inbound)
    /\ inbound' = ChanPush(inbound, LogoutEvent(uname[c], c))
    /\ cpc' = [cpc EXCEPT ![c] = "done"]
    /\ UNCHANGED <<map, bpc, bmsg, bpending, uname, resp, queue, epc, written, clock, sent,
                   joinsAccepted, loggedOut, logoutAud, inputsLeft, nNames, files, sendFailed>>
    /\ UNCHANGED wireVars

\* ------------------------------------------------------------- egress task
\* rx.recv() gave an event: descriptor, header and content are written and flushed
EgressWrite(c) ==
    /\ epc[c] = "running"
    /\ queue[c] # <<>>
    /\ queue' = [queue EXCEPT ![c] = ChanPop(@).rest]
    /\ written' = [written EXCEPT ![c] = Append(@, ChanPop(queue[c]).e)]
    /\ UNCHANGED <<map, inbound, bpc, bmsg, bpending, cpc, uname, resp, epc, clock, sent,
                   joinsAccepted, loggedOut, logoutAud, inputsLeft, nNames, files, sendFailed>>
    /\ UNCHANGED wireVars

\* a write fails: the ? operator ends the task, dropping the receiver and what
\* the queue still held
EgressWriteFails(c) ==
    /\ epc[c] = "running"
    /\ queue[c] # <<>>
    /\ queue' = [queue EXCEPT ![c] = <<>>]
    /\ inputsLeft > 0
    /\ inputsLeft' = inputsLeft - 1
    /\ epc' = [epc EXCEPT ![c] = "failed"]
    /\ UNCHANGED <<map, inbound, bpc, bmsg, bpending, cpc, uname, resp, written, clock,
                   sent, joinsAccepted, loggedOut, logoutAud, nNames, files, sendFailed>>
    /\ UNCHANGED wireVars

\* rx.recv() gave None: the queue is empty and every Sender has been dropped
EgressClose(c) ==
    /\ epc[c] = "running"
    /\ queue[c] = <<>>
    /\ ~TxAlive(c)
    /\ epc' = [epc EXCEPT ![c] = "closed"]
    /\ UNCHANGED <<map, inbound, bpc, bmsg, bpending, cpc, uname, resp, queue, written,
                   clock, sent, joinsAccepted, loggedOut, logoutAud, inputsLeft, nNames, files, sendFailed>>
    /\ UNCHANGED wireVars

\* ------------------------------------------------------------- one frame through the server
\* a logged-in client has put a frame on the stream, or process_login is about
\* to write a reply; the broker and the other connections take no step
InitWire ==
    /\ ChatInit(0)
    /\ \/ wpc = "client" /\ wframe \in WireFrames
       \/ wpc = "reply" /\ wframe \in WireReplies
    /\ wbytes = <<>>
    /\ wgot = DescFrom("Unknwown")
    /\ wpos = 0
    /\ wfile = <<>>
    /\ wmsg = NoMsg
    /\ wout = NoOut

\* client.rs: writer.write_all(Descriptor::from(..).with_header_len(..).with_content_len(..).as_bytes())
WireClientWrite ==
    /\ wpc = "client"
    /\ wbytes' = AsBytes(wframe.desc, wframe.pad)
    /\ wpc' = "wire"
    /\ UNCHANGED <<wframe, wgot, wpos, wfile, wmsg, wout>>
    /\ UNCHANGED chatVars

\* Descriptor::read: read_exact of size_of::<Descriptor>() bytes, then from_bytes
WireReadDescriptor ==
    /\ wpc = "wire"
    /\ Len(wbytes) = DescSize
    /\ wgot' = FromBytes(wbytes)
    /\ wpc' = "decoded"
    /\ UNCHANGED <<wframe, wbytes, wpos, wfile, wmsg, wout>>
    /\ UNCHANGED chatVars

\* process_msg: the kind is none of the four, todo!() panics
WireBadKind ==
    /\ wpc = "decoded"
    /\ ~IsUserKind(wgot.type)
    /\ wpc' = "panicked"
    /\ UNCHANGED <<wframe, wbytes, wgot, wpos, wfile, wmsg, wout>>
    /\ UNCHANGED chatVars

\* the Message process_msg sends: for a File the filename is the header_len
\* bytes read after the descriptor (utf8) or "" (unwrap_or_default); the header
\* is serialised and desc.with_header_len(header.len() as u16) goes with it
WireMessage(utf8, content) ==
    LET named == wgot.type = "File"
        flen == IF utf8 THEN wgot.header_len ELSE 0
        hlen == HeaderJsonLen(wframe.ts, wframe.ulen, named, flen)
    IN  [desc |-> WithHeaderLen(wgot, AsU16(hlen)), header |-> hlen, content |-> content]

\* process_msg, content_len <= BUF_SIZE: read_exact of content_len bytes into a
\* Vec, then the Message is sent
WireReadContent ==
    /\ wpc = "decoded"
    /\ IsUserKind(wgot.type)
    /\ FitsBuffer(wgot.content_len)
    /\ wgot.content_len[1] <= wframe.tail
    /\ wpos' = wgot.content_len[1]
    /\ \E utf8 \in BOOLEAN :
         wmsg' = WireMessage(utf8, ContentVec(TailBytes(0, wgot.content_len[1])))
    /\ wpc' = "emitted"
    /\ UNCHANGED <<wframe, wbytes, wgot, wfile, wout>>
    /\ UNCHANGED chatVars

\* the stream ends before content_len bytes came: read_exact gives UnexpectedEof
\* and process_msg returns Err
WireShortRead ==
    /\ wpc = "decoded"
    /\ IsUserKind(wgot.type)
    /\ FitsBuffer(wgot.content_len)
    /\ wgot.content_len[1] > wframe.tail
    /\ wframe.eof
    /\ wpc' = "error"
    /\ UNCHANGED <<wframe, wbytes, wgot, wpos, wfile, wmsg, wout>>
    /\ UNCHANGED chatVars

\* process_msg, content_len > BUF_SIZE: the spill file is opened under a fresh
\* name (Ok), or open(..).await? returns the error
WireSpillOpen ==
    /\ wpc = "decoded"
    /\ IsUserKind(wgot.type)
    /\ ~FitsBuffer(wgot.content_len)
    /\ \/ wpc' = "spilling"
       \/ wpc' = "error"
    /\ UNCHANGED <<wframe, wbytes, wgot, wpos, wfile, wmsg, wout>>
    /\ UNCHANGED chatVars

\* one turn of while reader.read_buf(&mut buf).await? != 0: up to BUF_SIZE of the
\* bytes the stream holds next are read and written to the file
WireSpillRead ==
    /\ wpc = "spilling"
    /\ wpos < wframe.tail
    /\ \E k \in 1..BufSize :
         /\ wpos + k <= wframe.tail
         /\ wfile' = wfile \o TailBytes(wpos, wpos + k)
         /\ wpos' = wpos + k
    /\ UNCHANGED <<wpc, wframe, wbytes, wgot, wmsg, wout>>
    /\ UNCHANGED chatVars

\* read_buf returned 0, the end of the stream: the loop ends and the Message is
\* sent with Content::File(path)
WireSpillEnd ==
    /\ wpc = "spilling"
    /\ wpos = wframe.tail
    /\ wframe.eof
    /\ \E utf8 \in BOOLEAN : wmsg' = WireMessage(utf8, ContentFile)
    /\ wpc' = "emitted"
    /\ UNCHANGED <<wframe, wbytes, wgot, wpos, wfile, wout>>
    /\ UNCHANGED chatVars

\* Content::write: a Vec is written whole, a File is read to its end and
\* written, None writes nothing
ContentBytes(content) ==
    CASE content.type = "Vec" -> content.data
      [] content.type = "File" -> wfile
      [] content.type = "None" -> <<>>

\* the egress task on the Message: write_all(desc.as_bytes()), write_all(header),
\* content.write(writer), flush
WireEgressFrame ==
    /\ wpc = "emitted"
    /\ \E pad \in Pads :
         wout' = [desc |-> AsBytes(wmsg.desc, pad), header |-> wmsg.header,
                  content |-> ContentBytes(wmsg.content)]
    /\ wpc' = "written"
    /\ UNCHANGED <<wframe, wbytes, wgot, wpos, wfile, wmsg>>
    /\ UNCHANGED chatVars

\* send_msg(writer, desc, None, None): the descriptor alone, then flush
WireSendMsg ==
    /\ wpc = "reply"
    /\ \E pad \in Pads :
         wout' = [desc |-> AsBytes(wframe.desc, pad), header |-> 0, content |-> <<>>]
    /\ wpc' = "written"
    /\ UNCHANGED <<wframe, wbytes, wgot, wpos, wfile, wmsg>>
    /\ UNCHANGED chatVars

\* ------------------------------------------------------------- specification
Next ==
    \/ BrokerRecvMessage
    \/ \E u \in Users : BrokerSend(u)
    \/ BrokerRecvJoin
    \/ BrokerRecvLogout
    \/ BrokerEmit
    \/ \E c \in Conn : LoginBadKind(c)
    \/ \E c \in Conn : LoginBadUtf8(c)
    \/ \E c \in Conn, u \in Users : LoginJoin(c, u)
    \/ \E c \in Conn : LoginReply(c)
    \/ \E c \in Conn : LoginIoError(c)
    \/ \E c \in Conn, f \in UserFrames : IngressMsg(c, f)
    \/ \E c \in Conn : IngressBadKind(c)
    \/ \E c \in Conn : IngressError(c)
    \/ \E c \in Conn : SendLogout(c)
    \/ \E c \in Conn : EgressWrite(c)
    \/ \E c \in Conn : EgressWriteFails(c)
    \/ \E c \in Conn : EgressClose(c)

Spec == Init /\ [][Next]_vars

SpecDeep == InitDeep /\ [][Next]_vars

\* what the server does by itself once it can: the broker's steps, and in each
\* connection the write of the handshake reply, the Logout after the loop and
\* the egress task's turns. tokio runs every task that is ready; frames,
\* disconnects and I/O errors come when the client and the network choose.
ServerStep ==
    \/ BrokerRecvMessage
    \/ \E u \in Users : BrokerSend(u)
    \/ BrokerRecvJoin
    \/ BrokerRecvLogout
    \/ BrokerEmit
    \/ \E c \in Conn : LoginReply(c)
    \/ \E c \in Conn : SendLogout(c)
    \/ \E c \in Conn : EgressWrite(c)
    \/ \E c \in Conn : EgressClose(c)

FairSpec == Init /\ [][Next]_vars /\ WF_vars(ServerStep)

NextWire ==
    \/ WireClientWrite
    \/ WireReadDescriptor
    \/ WireBadKind
    \/ WireReadContent
    \/ WireShortRead
    \/ WireSpillOpen
    \/ WireSpillRead
    \/ WireSpillEnd
    \/ WireEgressFrame
    \/ WireSendMsg

SpecWire == InitWire /\ [][NextWire]_vars

\* ------------------------------------------------------------- observations
\* what a connection's socket gets, in order: frames written, then frames queued
Stream(c) == written[c] \o queue[c]

\* how many times event e occurs in sequence q
Copies(q, e) == Cardinality({i \in 1..Len(q) : q[i] = e})

\* nothing is in flight anywhere and the broker waits in rx.recv()
Quiescent == inbound = <<>> /\ bpc = "idle" /\ \A c \in Conn : queue[c] = <<>>

\* the client is still logged in and its socket took every write so far
Connected(c) == cpc[c] = "ingress" /\ epc[c] # "failed"

\* the broker has inserted c's Join (the Login reply may still be on its way)
Accepted(c) ==
    \/ cpc[c] \in {"ingress", "logout", "done", "panicked"}
    \/ cpc[c] = "joining" /\ resp[c] = "Login"
    \/ cpc[c] = "joining" /\ bpc = "emit" /\ bmsg = JoinEvent(uname[c], c)

\* c is inside process_login and the broker has not accepted a Join of it
InHandshake(c) ==
    \/ cpc[c] = "login"
    \/ cpc[c] = "joining" /\ ~Accepted(c)

\* the Logout event of c is on the inbound channel
LogoutInFlight(c) == \E i \in 1..Len(inbound) : inbound[i] = LogoutEvent(uname[c], c)

\* ------------------------------------------------------------- claims
\* C1: when the broker handles a Join whose username is already registered it
\* replies UsernameExists and leaves the registry as it was (the username
\* still maps to the sender of the connection that registered it).
C1_DuplicateJoinKeepsRegistry ==
    [][(BrokerRecvJoin /\ map[Head(inbound).user] # NoConn)
         => (map' = map /\ resp'[Head(inbound).conn] = "UsernameExists")]_vars

\* C2: every message a logged-in sender submits is written exactly once to the
\* socket of every subscriber that was logged in when it was submitted and is
\* still connected once everything in flight has been delivered; no socket
\* gets a message twice.
C2_DeliveredExactlyOnce ==
    \A s \in sent : \A c \in Conn :
        /\ Copies(Stream(c), s.m) <= 1
        /\ (Quiescent /\ c \in s.aud /\ Connected(c)) => Copies(written[c], s.m) = 1

\* C3: every subscriber gets the broker's events in the order the broker took
\* them off its inbound queue, which is the order they were put on it; so two
\* messages of one sender reach every subscriber in submission order.
C3_FanoutIsFifo ==
    /\ \A c \in Conn : \A i, j \in 1..Len(Stream(c)) :
          (i < j /\ Stream(c)[i].id > 0 /\ Stream(c)[j].id > 0)
             => Stream(c)[i].id <= Stream(c)[j].id
    /\ \A i, j \in 1..Len(inbound) :
          (i < j /\ inbound[i].id > 0 /\ inbound[j].id > 0) => inbound[i].id < inbound[j].id
    /\ bpc = "fanout" =>
          /\ \A i \in 1..Len(inbound) : inbound[i].id > 0 => bmsg.id < inbound[i].id
          /\ \A c \in Conn : \A i \in 1..Len(Stream(c)) : Stream(c)[i].id <= bmsg.id

\* C3 witness: a socket has been written two different messages of one sender
C3_TwoMessagesDelivered ==
    \E c \in Conn : \E i, j \in 1..Len(written[c]) :
        /\ i < j
        /\ IsUserKind(written[c][i].kind) /\ IsUserKind(written[c][j].kind)
        /\ written[c][i].conn = written[c][j].conn
        /\ written[c][i].id < written[c][j].id

\* the for loop of the Message arm is waiting for room in a subscriber's queue
BrokerWaits ==
    /\ bpc = "fanout"
    /\ \A u \in bpending : RxAlive(map[u]) /\ ~HasRoom(queue[map[u]])

\* C4: the broker never waits for a subscriber whose egress queue is full; it
\* drops the message for that subscriber and goes on.
C4_BrokerNeverWaits == ~BrokerWaits

\* C5: once the ingress loop of a logged-in connection has ended, for whatever
\* reason, and its task is over, a Logout for its username has been sent to
\* the broker.
C5_IngressEndSendsLogout ==
    \A c \in Conn :
        cpc[c] \in {"done", "panicked"} => (c \in loggedOut \/ LogoutInFlight(c))

\* C6: between two events of the broker, the registry holds as many entries
\* as Joins were answered with Login minus Logouts were processed.
C6_RegistrySize ==
    bpc # "emit" => Cardinality(Registered) = joinsAccepted - logoutsProcessed

\* C6 witness: Joins were accepted, a Logout was processed, an entry is left
C6_JoinsAndLogoutCounted ==
    /\ bpc = "idle"
    /\ joinsAccepted >= 2
    /\ logoutsProcessed >= 1
    /\ Registered # {}

\* C7: from the acceptance of a connection's Join until its Logout is
\* processed, the registry holds the sender of that connection's egress queue
\* under its username, so its egress task does not see the queue closed.
C7_QueueOpenUntilLogout ==
    \A c \in Conn :
        (Accepted(c) /\ c \notin loggedOut) => (map[uname[c]] = c /\ epc[c] # "closed")

\* C8: no event is put on the egress queue of a connection that is still in
\* the handshake (first attempt or retry after a rejected Join).
C8_NoEventBeforeLogin ==
    \A c \in Conn : InHandshake(c) => queue[c] = <<>>

LogoutFrames(c, d) ==
    {i \in 1..Len(Stream(d)) :
        Stream(d)[i].kind = "Logout" /\ Stream(d)[i].id > 0 /\ Stream(d)[i].conn = c}

\* C10: the Logout frame of a user that disconnected reaches every remaining
\* subscriber exactly once and never the egress queue of that user itself.
C10_LogoutBroadcast ==
    \A c, d \in Conn :
        /\ Cardinality(LogoutFrames(c, d)) <= 1
        /\ LogoutFrames(c, c) = {}
        /\ (Quiescent /\ d \in logoutAud[c] /\ Connected(d))
              => Cardinality(LogoutFrames(c, d)) = 1

\* C11: when the egress task of a logged-in connection has ended on a failed
\* write, the connection's ingress loop eventually ends too and its Logout is
\* sent to the broker.
C11_EgressEndEndsSession ==
    \A c \in Conn : (epc[c] = "failed") ~> (cpc[c] = "done")

\* the stamps a Message can carry: every input causes at most one Message
MsgIds == 1..(MaxInputs + 1)

\* the Message stamped i is still to be streamed by some egress task: it waits
\* on the inbound channel, is being fanned out, or sits in an egress queue
Held(i) ==
    \/ \E k \in 1..Len(inbound) : inbound[k].id = i
    \/ bpc = "fanout" /\ bmsg.id = i
    \/ \E c \in Conn : \E k \in 1..Len(queue[c]) : queue[c][k].id = i

FrameContent(n) == TailBytes(0, n)

IsPrefix(p, q) == Len(p) <= Len(q) /\ SubSeq(q, 1, Len(p)) = p

\* C13: for a File frame whose content_len n exceeds BUF_SIZE and which is
\* followed by further bytes on the stream, the spill file gets the n content
\* bytes of the frame and nothing else, and the frame written to a subscriber
\* carries exactly those n bytes.
C13_SpillIsExactContent ==
    \A n \in (BufSize + 1)..MaxTail :
        (wgot.type = "File" /\ wgot.content_len = LeU64(n) /\ n < wframe.tail)
           => /\ wpc = "spilling" => IsPrefix(wfile, FrameContent(n))
              /\ wpc \in {"emitted", "written"} => wfile = FrameContent(n)
              /\ wpc = "written" => wout.content = FrameContent(n)

\* C14: in every frame the egress task writes, the header bytes written are as
\* many as the header_len of the descriptor written says, and the content
\* bytes as many as its content_len says.
C14_FrameWellFormed ==
    (wpc = "written" /\ wmsg # NoMsg)
       => /\ wout.header = FromBytes(wout.desc).header_len
          /\ LeU64(Len(wout.content)) = FromBytes(wout.desc).content_len

\* the descriptor on the wire has been decoded
Decoded == wbytes # <<>> /\ wpc # "wire"

\* C15: decoding the bytes of an encoded descriptor gives back its kind, its
\* header_len and its content_len.
C15_DescriptorRoundTrip ==
    Decoded => /\ wgot.type = wframe.desc.type
               /\ wgot.header_len = wframe.desc.header_len
               /\ wgot.content_len = wframe.desc.content_len

\* C15 witness: a descriptor of kind Unknwown with the largest header_len and
\* content_len, encoded with padding that is not zero, has been decoded
C15_ExtremeDescriptorDecoded ==
    /\ Decoded
    /\ wframe.desc = Desc("Unknwown", U16Mod - 1, <<255, 255, 255, 255, 255, 255, 255, 255>>)
    /\ wframe.pad # <<0, 0, 0, 0>>
    /\ wgot = wframe.desc

\* C16: every frame written to a socket is 12 + header_len + content_len bytes
\* long, 12 of them the descriptor.
C16_FrameLength ==
    wpc = "written"
       => /\ Len(wout.desc) = 12
          /\ \E c \in 0..MaxTail :
                /\ FromBytes(wout.desc).content_len = LeU64(c)
                /\ Len(wout.desc) + wout.header + Len(wout.content)
                      = 12 + FromBytes(wout.desc).header_len + c

\* the registry maps the username of c's session to the sender of c's queue
HoldsEntry(c) == \E u \in Users : uname[c] = u /\ map[u] = c

\* C17: after login, a descriptor whose kind is none of Utf8, File, Voice,
\* Image closes the connection: no Message is emitted for the frame, the
\* egress task ends as well, and the username leaves the registry.
C17_BadKindClosesConnection ==
    /\ [][\A c \in Conn : IngressBadKind(c) => (inbound' = inbound /\ sent' = sent)]_vars
    /\ \A c \in Conn : (cpc[c] = "panicked") ~> (epc[c] # "running" /\ ~HoldsEntry(c))

\* a frame that is a descriptor alone: no header, no content, from no user
DescriptorOnly(kind) ==
    [type |-> "Message", kind |-> kind, user |-> "", conn |-> NoConn, id |-> 0,
     content |-> "None"]

\* C18: in the handshake a descriptor of another kind than Login is answered
\* with a BadLogin descriptor, a Login frame whose header is not UTF-8 with a
\* BadUsername descriptor; neither sends a Join, neither changes the registry,
\* and the connection stays in the handshake loop.
C18_BadHandshakeFrames ==
    [][\A c \in Conn :
          /\ LoginBadKind(c)
                => /\ written'[c] = Append(written[c], DescriptorOnly("BadLogin"))
                   /\ inbound' = inbound /\ map' = map /\ cpc'[c] = "login"
                   /\ epc'[c] = "none"
          /\ LoginBadUtf8(c)
                => /\ written'[c] = Append(written[c], DescriptorOnly("BadUsername"))
                   /\ inbound' = inbound /\ map' = map /\ cpc'[c] = "login"
                   /\ epc'[c] = "none"
      ]_vars

\* C18 witness: a connection got both answers and is still in the handshake,
\* with nothing sent to the broker and nothing registered
C18_BothErrorsAnswered ==
    \E c \in Conn :
        /\ \E i \in 1..Len(written[c]) : written[c][i] = DescriptorOnly("BadLogin")
        /\ \E i \in 1..Len(written[c]) : written[c][i] = DescriptorOnly("BadUsername")
        /\ cpc[c] = "login"
        /\ inbound = <<>>
        /\ Registered = {}

\* the Login reply of process_login has been written to c's socket
LoginReplied(c) == \E i \in 1..Len(written[c]) : written[c][i] = DescriptorOnly("Login")

\* C19: a connection runs its ingress loop and its egress task, and sends
\* Message events, only after its Join was answered with Login and that reply
\* was written; a UsernameExists answer is written as a descriptor and leaves
\* the connection in the handshake with nothing sent to the broker.
C19_LoginOnlyAfterLoginReply ==
    /\ [](\A c \in Conn :
            /\ (cpc[c] \in {"ingress", "logout", "done", "panicked"} \/ epc[c] # "none")
                  => LoginReplied(c)
            /\ \A s \in sent : s.m.conn = c => LoginReplied(c))
    /\ [][\A c \in Conn :
            (LoginReply(c) /\ resp[c] = "UsernameExists")
               => /\ written'[c] = Append(written[c], DescriptorOnly("UsernameExists"))
                  /\ cpc'[c] = "login" /\ epc'[c] = "none"
                  /\ inbound' = inbound /\ sent' = sent
        ]_vars

\* C19 witness: a connection was answered UsernameExists, tried again under
\* another name and runs its ingress loop and egress task
C19_RetriedAndLoggedIn ==
    \E c \in Conn : \E i, j \in 1..Len(written[c]) :
        /\ i < j
        /\ written[c][i] = DescriptorOnly("UsernameExists")
        /\ written[c][j] = DescriptorOnly("Login")
        /\ cpc[c] = "ingress"
        /\ epc[c] = "running"

\* C20, the for loop: a send that fails leaves the registry as it is and the
\* loop goes on with the entries it has not sent to yet.
C20_FailedSendGoesOn ==
    [][\A u \in Users :
          (BrokerSend(u) /\ ~RxAlive(map[u]))
             => /\ map' = map
                /\ bpending' = bpending \ {u}
                /\ (bpending' # {} => (bpc' = "fanout" /\ bmsg' = bmsg))
      ]_vars

\* C20: when a send of the fan-out to a subscriber's queue has failed, the
\* broker goes on with the other entries, and the entry of that subscriber
\* stays in the registry until a Logout for it is processed.
C20_SendFailureKeepsEntry ==
    \A c \in sendFailed : c \notin loggedOut => HoldsEntry(c)


\* process_msg up to the send of the Message: the bytes taken from the stream
\* after the descriptor. The filename read (header_len bytes) is made for a
\* File only; wpos counts the bytes the content read or the spill loop took.
Consumed == (IF wgot.type = "File" THEN wgot.header_len ELSE 0) + wpos

\* C21: for a frame of an accepted kind (Utf8, File, Voice, Image) with
\* header_len h and content_len n, the ingress task has consumed exactly h + n
\* bytes after the descriptor when it emits the frame's Message, so the next
\* descriptor read starts at the first byte of the client's next frame.
C21_DescriptorDelimits ==
    \A n \in 0..MaxTail :
        (wpc \in {"emitted", "written"} /\ wmsg # NoMsg /\ wgot.content_len = LeU64(n))
           => Consumed = wgot.header_len + n


\* the broker is inside tx.send(..).await of the Join or Logout arm and its own
\* inbound channel has no free slot; rx.recv() is called by the broker alone,
\* after this send returns
BrokerSelfBlocked == bpc = "emit" /\ ~HasRoom(inbound)

\* C22: the broker can always finish a Join or a Logout: when it emits the
\* Login or Logout Message onto its own inbound queue, the queue has room or
\* gets room, so no reachable state has the broker waiting for a slot of a
\* queue that only the broker itself drains.
C22_SelfSendNeverBlocks == ~BrokerSelfBlocked

\* C22, the other half: once the broker waits for a slot of its own full
\* queue, no step of any task ends the wait
C22_SelfBlockedForever == [][BrokerSelfBlocked => BrokerSelfBlocked']_vars


\* the usernames under which the registry holds a sender of c's egress queue
\* (every Join of c carries sender_conn.clone(), a sender of the same queue)
NamesOf(c) == {u \in Users : map[u] = c}

\* C23: the registry is injective on connections: the egress queue of one
\* connection is registered under at most one username, so one fan-out puts at
\* most one copy of an event into any connection's egress queue.
C23_RegistryInjective ==
    \A c \in Conn :
        /\ Cardinality(NamesOf(c)) <= 1
        /\ \A i, j \in 1..Len(Stream(c)) :
              (i < j /\ Stream(c)[i].id > 0) => Stream(c)[i] # Stream(c)[j]


\* frames of the session of connection c, as a subscriber's socket gets them:
\* the Login broadcast of the Join arm, a user message process_msg sent, the
\* Logout broadcast of the Logout arm (a handshake reply has no stamp)
IsLoginOf(e, c) == e.kind = "Login" /\ e.id > 0 /\ e.conn = c

IsMsgOf(e, c) == IsUserKind(e.kind) /\ e.conn = c

IsLogoutOf(e, c) == e.kind = "Logout" /\ e.id > 0 /\ e.conn = c

\* the Join of d was accepted no later than that of c: the broker stamps the
\* Login broadcasts in the order it accepts the Joins, and each of the two
\* connections has got its own
RegisteredBefore(d, c) ==
    \E k \in 1..Len(Stream(d)), l \in 1..Len(Stream(c)) :
        /\ IsLoginOf(Stream(d)[k], d)
        /\ IsLoginOf(Stream(c)[l], c)
        /\ Stream(d)[k].id <= Stream(c)[l].id

\* C24: for the session of a user on connection c and every subscriber d:
\* each user message of the session that d gets comes after every Login frame
\* of the session, carries the name the Login frame names, and comes before
\* every Logout frame of the session; and when d was registered before the
\* session began, the Login frame of the session has come before the message.
C24_SessionFramesInOrder ==
    \A c, d \in Conn : \A i \in 1..Len(Stream(d)) :
        IsMsgOf(Stream(d)[i], c)
           => /\ \A j \in 1..Len(Stream(d)) :
                    /\ IsLoginOf(Stream(d)[j], c)
                          => (j < i /\ Stream(d)[j].user = Stream(d)[i].user)
                    /\ IsLogoutOf(Stream(d)[j], c)
                          => (i < j /\ Stream(d)[j].user = Stream(d)[i].user)
              /\ RegisteredBefore(d, c)
                    => \E j \in 1..(i - 1) : IsLoginOf(Stream(d)[j], c)

\* C24 witness: the socket of another subscriber has been written the Login
\* frame of a session, then a message of it, then its Logout frame
C24_WholeSessionDelivered ==
    \E c, d \in Conn : \E j, i, k \in 1..Len(written[d]) :
        /\ c # d
        /\ j < i /\ i < k
        /\ IsLoginOf(written[d][j], c)
        /\ IsMsgOf(written[d][i], c)
        /\ IsLogoutOf(written[d][k], c)
        /\ RegisteredBefore(d, c)


\* c holds a confirmed username: the broker has accepted its Join and has not
\* yet processed its Logout
Confirmed(c) == Accepted(c) /\ c \notin loggedOut

\* C25: at no time do two connections hold the same confirmed username: from
\* the acceptance of a connection's Join for u until the broker processes that
\* connection's Logout(u), no other connection's Join for u is accepted, and a
\* Join the broker accepts is for a name no connection holds.
C25_UniqueConfirmedUsername ==
    /\ \A c, d \in Conn : (c # d /\ Confirmed(c) /\ Confirmed(d)) => uname[c] # uname[d]
    /\ (bpc = "emit" /\ bmsg.type = "Join")
          => \A c \in Conn \ {bmsg.conn} : Confirmed(c) => uname[c] # bmsg.user

\* C25 witness: while c holds its name another connection's Join for the same
\* name has been answered with UsernameExists
C25_SecondJoinRejected ==
    \E c, d \in Conn :
        /\ c # d
        /\ Confirmed(c)
        /\ cpc[c] = "ingress"
        /\ cpc[d] = "joining"
        /\ uname[d] = uname[c]
        /\ resp[d] = "UsernameExists"

====
